---- MODULE Spec2Model ----
(***************************************************************************)
(* A model of the arducam-tof crate: the ArducamDepthCamera wrapper around *)
(* the native driver (src/src/lib.rs), the capture loop of the             *)
(* point_cloud_client example, the pure raster functions (FrameData::get   *)
(* and the examples' projection loops), the wire format between the client *)
(* and point_cloud_server, and the server's threads and render loop.       *)
(*                                                                         *)
(* The native driver is outside the crate: every status or pointer it      *)
(* returns is a nondeterministic input of the action that calls it.        *)
(***************************************************************************)
EXTENDS Integers, Sequences, FiniteSets, TLC

VARIABLES
    camera,       \* the ArducamDepthCamera's flags: [opened, started]
    camLive,      \* TRUE until the ArducamDepthCamera value has been dropped
    frames,       \* ids of the live ArducamFrameBuffer values (each borrows the camera)
    outstanding,  \* ids of the frames the driver handed out and has not released
    nextFrame,    \* number of frames the driver has handed out so far
    thread,       \* "running" | "panicking" (unwinding) | "aborted" | "finished"
    ret,          \* what the last wrapper call returned (or that it panicked)
    pre,          \* the camera's flags when the last wrapper call was entered
    calls,        \* the driver functions the last wrapper call invoked, in order
    timeout,      \* the timeout given to the last request_frame: Option<Duration>
    waited,       \* the wait request_frame last passed to the driver: Option<c_int>
    pc,           \* position of point_cloud_client's main
    quit,         \* point_cloud_client: the quit key was read in this iteration
    trace,        \* point_cloud_client: driver calls and raster reads so far
    depth,        \* FrameData of the depth raster: [width, height, data]
    confidence,   \* FrameData of the confidence raster
    arg,          \* the (x, y) last passed to FrameData::get
    got,          \* what FrameData::get returned
    points,       \* what the projection loop produced
    projected,    \* which projection loop produced points: "none" | "client" | "local"
    conn,         \* the TCP connection, as the server sees it: "open" | "closed"
    wire,         \* bytes written to the connection and not yet read by tcp_thread
    sent,         \* the batches the client has serialized so far, in order
    tcp,          \* tcp_thread: "listening" | "connected", or panicked: "unbound" (in
                  \* bind or accept) | "dead" (in deserialize)
    decoded,      \* the batches tcp_thread has handed to the point channel, in order
    pointChan,    \* the point channel: batches sent and not yet received
    ctl,          \* control_thread: "running" | "dead" (panicked)
    input,        \* the lines control_thread has read from stdin, in order
    out,          \* what control_thread printed for the last line it read
    cmdChan,      \* the command channel: commands sent and not yet received
    max_depth,    \* AppState::max_depth: Option<f32>
    min_depth,    \* AppState::min_depth: Option<f32>
    confidence_range,  \* AppState::confidence_range: Option<RangeInclusive<f32>>
    renderer,     \* the (point, colour) pairs held by the PointCloudRenderer
    taken,        \* the batches step has received from the point channel, in order
    pushed,       \* the points of the last received batch that step pushed
    exit          \* the server's exit status, "none" while it runs

camVars == <<camera, camLive, frames, outstanding, nextFrame, thread, ret, pre, calls>>
clientVars == <<pc, quit, trace>>
rasterVars == <<depth, confidence, arg, got, points, projected>>
serverVars == <<conn, wire, sent, tcp, decoded, pointChan, ctl, input, out, cmdChan,
                max_depth, min_depth, confidence_range, renderer, taken, pushed, exit>>
waitVars == <<timeout, waited>>
vars == <<camera, camLive, frames, outstanding, nextFrame, thread, ret, pre, calls,
          timeout, waited,
          pc, quit, trace, depth, confidence, arg, got, points, projected,
          conn, wire, sent, tcp, decoded, pointChan, ctl, input, out, cmdChan,
          max_depth, min_depth, confidence_range, renderer, taken, pushed, exit>>

(***************************************************************************)
(* Bounds of the model.                                                    *)
(***************************************************************************)
MaxStatus == 2
MaxFrames == 2
MaxCells == 4

\* native status codes (c_int); zero means success
Statuses == (0 - MaxStatus)..MaxStatus

(***************************************************************************)
(* Return values of the wrapper's methods.                                 *)
(***************************************************************************)
Ok(op, frame) == [op |-> op, kind |-> "Ok", err |-> "", code |-> 0, frame |-> frame]
Err(op, e, code) == [op |-> op, kind |-> "Err", err |-> e, code |-> code, frame |-> 0]
Panic(op) == [op |-> op, kind |-> "Panic", err |-> "", code |-> 0, frame |-> 0]

\* one call into the native driver, with what it returned
Call(fn, frame, status) == [fn |-> fn, frame |-> frame, status |-> status]

\* the outcome of a method: the camera afterwards, the value returned, the driver calls
Outcome(self, r, cs) == [self |-> self, ret |-> r, calls |-> cs]

(***************************************************************************)
(* impl ArducamDepthCamera                                                 *)
(***************************************************************************)
new == [opened |-> FALSE, started |-> FALSE]

open(self, status) ==
    IF status # 0
    THEN Outcome(self, Err("open", "OpenError", status),
                 <<Call("arducamCameraOpen", 0, status)>>)
    ELSE Outcome([self EXCEPT !.opened = TRUE], Ok("open", 0),
                 <<Call("arducamCameraOpen", 0, status)>>)

\* start with the flag set before the status is looked at
start_setting_flag_first(self, status) ==
    IF status # 0
    THEN Outcome([self EXCEPT !.started = TRUE], Err("start", "StartError", status),
                 <<Call("arducamCameraStart", 0, status)>>)
    ELSE Outcome([self EXCEPT !.started = TRUE], Ok("start", 0),
                 <<Call("arducamCameraStart", 0, status)>>)

start(self, status) ==
    IF status # 0
    THEN Outcome(self, Err("start", "StartError", status),
                 <<Call("arducamCameraStart", 0, status)>>)
    ELSE Outcome([self EXCEPT !.started = TRUE], Ok("start", 0),
                 <<Call("arducamCameraStart", 0, status)>>)

\* todo!() is the argument of arducamCameraClose: it panics before the driver is
\* called, so the match on the status below it is never reached
close(self) == Outcome(self, Panic("close"), <<>>)

stop(self, status) ==
    IF status # 0
    THEN Outcome(self, Err("stop", "StopError", status),
                 <<Call("arducamCameraStop", 0, status)>>)
    ELSE Outcome([self EXCEPT !.started = FALSE], Ok("stop", 0),
                 <<Call("arducamCameraStop", 0, status)>>)

\* ptr: the id of the frame the driver returned, 0 for a null pointer.  The
\* flags of self are not read.
request_frame(self, ptr) ==
    IF ptr = 0
    THEN Outcome(self, Err("request_frame", "RequestFrameError", 0),
                 <<Call("arducamCameraRequestFrame", 0, 0)>>)
    ELSE Outcome(self, Ok("request_frame", ptr),
                 <<Call("arducamCameraRequestFrame", ptr, 0)>>)

\* A Duration is modelled by its count of milliseconds, a number too wide for
\* a c_int: <<l0, l1, l2>> stands for l0 + l1 * 2^16 + l2 * 2^32, each limb
\* below 2^16.
NoTimeout == [some |-> FALSE, val |-> <<0, 0, 0>>]

\* no request_frame has called the driver yet
NoWait == [some |-> FALSE, val |-> 0]

Millis(n) == [some |-> TRUE, val |-> <<n % 65536, n \div 65536, 0>>]

\* the timeouts a caller passes: none, or a Duration of l0 + l1 * 2^16 +
\* l2 * 2^32 milliseconds
Timeouts ==
    {NoTimeout}
    \cup { [some |-> TRUE, val |-> <<l0, l1, l2>>] :
             l0 \in {0, 200, 65535}, l1 \in {0, 32767, 32768, 65535}, l2 \in {0, 1} }

\* timeout.as_millis() as std::ffi::c_int: the low 32 bits, read as signed
as_c_int(ms) ==
    IF ms[2] >= 32768 THEN (ms[2] - 65536) * 65536 + ms[1] ELSE ms[2] * 65536 + ms[1]

\* let timeout = match timeout { Some(timeout) => ..., None => -1 }
request_frame_timeout(t) == IF t.some THEN as_c_int(t.val) ELSE 0 - 1

\* Result::unwrap: an Err becomes a panic
unwrap(o, op) ==
    IF o.ret.kind = "Ok" THEN Outcome(o.self, Ok(op, o.ret.frame), o.calls)
    ELSE Outcome(o.self, Panic(op), o.calls)

\* impl Drop for ArducamDepthCamera; status is what the driver's stop returns
ArducamDepthCamera_drop(self, status) ==
    LET s == IF self.started
             THEN unwrap(stop(self, status), "ArducamDepthCamera::drop")
             ELSE Outcome(self, Ok("ArducamDepthCamera::drop", 0), <<>>)
    IN  IF s.ret.kind = "Panic" THEN s
        ELSE IF s.self.opened
             THEN LET c == unwrap(close(s.self), "ArducamDepthCamera::drop")
                  IN  Outcome(c.self, c.ret, s.calls \o c.calls)
             ELSE s

\* a drop that does not call the driver: the frame is leaked
ArducamFrameBuffer_drop_without_release(self, f, status) ==
    Outcome(self, Ok("ArducamFrameBuffer::drop", 0), <<>>)

\* a drop that does not look at the status the driver returned
ArducamFrameBuffer_drop_ignoring_status(self, f, status) ==
    Outcome(self, Ok("ArducamFrameBuffer::drop", 0),
            <<Call("arducamCameraReleaseFrame", f, status)>>)

\* impl Drop for ArducamFrameBuffer; status is what the driver's release returns
ArducamFrameBuffer_drop(self, f, status) ==
    Outcome(self,
            IF status # 0 THEN Panic("ArducamFrameBuffer::drop")
            ELSE Ok("ArducamFrameBuffer::drop", 0),
            <<Call("arducamCameraReleaseFrame", f, status)>>)

\* a frame buffer whose lifetime is not tied to the borrow of the camera
CanBorrowMut_unchecked == TRUE

\* request_frame takes &mut self and the ArducamFrameBuffer it returns keeps
\* that borrow: no method taking &mut self, and no drop of the camera, can be
\* invoked while a frame buffer is live
CanBorrowMut == frames = {}

\* a panic while the thread is already unwinding aborts the process
AfterPanic == IF thread = "running" THEN "panicking" ELSE "aborted"


(***************************************************************************)
(* The wrapper under an arbitrary caller (specification Spec).  A caller   *)
(* may invoke any method in any state the borrow checker allows; a thread  *)
(* that panicked only unwinds, which drops the frame buffer and then the   *)
(* camera.                                                                 *)
(***************************************************************************)
Apply(o) ==
    /\ camera' = o.self
    /\ ret' = o.ret
    /\ calls' = o.calls
    /\ pre' = camera
    /\ thread' = IF o.ret.kind = "Panic" THEN AfterPanic ELSE thread

CamInit ==
    /\ camera = new
    /\ camLive = TRUE
    /\ frames = {}
    /\ outstanding = {}
    /\ nextFrame = 0
    /\ thread = "running"
    /\ ret = Ok("new", 0)
    /\ pre = new
    /\ calls = <<>>
    /\ timeout = NoTimeout
    /\ waited = NoWait

ClientIdle == pc = "idle" /\ quit = FALSE /\ trace = <<>>

EmptyFrameData == [width |-> 0, height |-> 0, data |-> <<>>]
None == [some |-> FALSE, val |-> 0]
Some(v) == [some |-> TRUE, val |-> v]

RasterIdle ==
    /\ depth = EmptyFrameData
    /\ confidence = EmptyFrameData
    /\ arg = <<>>
    /\ got = None
    /\ points = <<>>
    /\ projected = "none"

\* Option<RangeInclusive<f32>>::None
NoRange == [some |-> FALSE, val |-> [low |-> 0, high |-> 0]]
Range(low, high) == [some |-> TRUE, val |-> [low |-> low, high |-> high]]

\* the server before main has spawned its threads
ServerIdle ==
    /\ conn = "open"
    /\ wire = <<>>
    /\ sent = <<>>
    /\ tcp = "listening"
    /\ decoded = <<>>
    /\ pointChan = <<>>
    /\ ctl = "running"
    /\ input = <<>>
    /\ out = ""
    /\ cmdChan = <<>>
    /\ max_depth = None
    /\ min_depth = None
    /\ confidence_range = NoRange
    /\ renderer = <<>>
    /\ taken = <<>>
    /\ pushed = <<>>
    /\ exit = "none"

Init == CamInit /\ ClientIdle /\ RasterIdle /\ ServerIdle

Open(status) ==
    /\ thread = "running" /\ camLive /\ CanBorrowMut
    /\ Apply(open(camera, status))
    /\ UNCHANGED <<camLive, frames, outstanding, nextFrame>>
    /\ UNCHANGED <<clientVars, rasterVars, serverVars, waitVars>>

Start(status) ==
    /\ thread = "running" /\ camLive /\ CanBorrowMut
    /\ Apply(start(camera, status))
    /\ UNCHANGED <<camLive, frames, outstanding, nextFrame>>
    /\ UNCHANGED <<clientVars, rasterVars, serverVars, waitVars>>

Stop(status) ==
    /\ thread = "running" /\ camLive /\ CanBorrowMut
    /\ Apply(stop(camera, status))
    /\ UNCHANGED <<camLive, frames, outstanding, nextFrame>>
    /\ UNCHANGED <<clientVars, rasterVars, serverVars, waitVars>>

Close ==
    /\ thread = "running" /\ camLive /\ CanBorrowMut
    /\ Apply(close(camera))
    /\ UNCHANGED <<camLive, frames, outstanding, nextFrame>>
    /\ UNCHANGED <<clientVars, rasterVars, serverVars, waitVars>>

\* the frame the driver hands out next gets the id nextFrame + 1
Acquire(ptr) ==
    /\ frames' = IF ptr = 0 THEN frames ELSE frames \cup {ptr}
    /\ outstanding' = IF ptr = 0 THEN outstanding ELSE outstanding \cup {ptr}
    /\ nextFrame' = IF ptr = 0 THEN nextFrame ELSE ptr

RequestFrame(t, nonNull) ==
    /\ thread = "running" /\ camLive /\ CanBorrowMut
    /\ nonNull => nextFrame < MaxFrames
    /\ timeout' = t
    /\ waited' = [some |-> TRUE, val |-> request_frame_timeout(t)]
    /\ LET ptr == IF nonNull THEN nextFrame + 1 ELSE 0
       IN  Apply(request_frame(camera, ptr)) /\ Acquire(ptr)
    /\ UNCHANGED camLive
    /\ UNCHANGED <<clientVars, rasterVars, serverVars>>

\* the frame buffer stops existing; the driver frees the frame only on status 0
Release(f, status) ==
    /\ frames' = frames \ {f}
    /\ outstanding' = IF status = 0 THEN outstanding \ {f} ELSE outstanding

FrameDrop(f, status) ==
    /\ thread \in {"running", "panicking"}
    /\ f \in frames
    /\ Apply(ArducamFrameBuffer_drop(camera, f, status))
    /\ Release(f, status)
    /\ UNCHANGED <<camLive, nextFrame>>
    /\ UNCHANGED <<clientVars, rasterVars, serverVars, waitVars>>

CameraDrop(status) ==
    /\ thread \in {"running", "panicking"}
    /\ camLive /\ CanBorrowMut
    /\ Apply(ArducamDepthCamera_drop(camera, status))
    /\ camLive' = FALSE
    /\ UNCHANGED <<frames, outstanding, nextFrame>>
    /\ UNCHANGED <<clientVars, rasterVars, serverVars, waitVars>>

Next ==
    \/ \E status \in Statuses : Open(status)
    \/ \E status \in Statuses : Start(status)
    \/ \E status \in Statuses : Stop(status)
    \/ Close
    \/ \E t \in Timeouts, nonNull \in BOOLEAN : RequestFrame(t, nonNull)
    \/ \E f \in frames, status \in Statuses : FrameDrop(f, status)
    \/ \E status \in Statuses : CameraDrop(status)

Spec == Init /\ [][Next]_vars


(***************************************************************************)
(* examples/point_cloud_client.rs, main (specification ClientSpec).  Each  *)
(* unwrap or assert that fails panics; the panic unwinds main, dropping    *)
(* the live locals in reverse order of declaration: the frame of the       *)
(* current iteration first, the camera last.                               *)
(***************************************************************************)
ClientInit ==
    CamInit /\ pc = "open" /\ quit = FALSE /\ trace = <<>> /\ RasterIdle /\ ServerIdle

\* the frame buffer of the current iteration
frame == CHOOSE f \in frames : TRUE

\* a step of main that calls no camera method: it goes on, or panics and unwinds
Goes(ok, next) ==
    /\ pc' = IF ok THEN next ELSE "unwind"
    /\ thread' = IF ok THEN thread ELSE "panicking"

\* cam.open(Connection::CSI, 0).unwrap()
ClientOpen(status) ==
    /\ pc = "open"
    /\ LET o == unwrap(open(camera, status), "open")
       IN  /\ Apply(o)
           /\ trace' = trace \o o.calls
           /\ pc' = IF o.ret.kind = "Panic" THEN "unwind" ELSE "start"
    /\ UNCHANGED <<camLive, frames, outstanding, nextFrame, quit, rasterVars, serverVars, waitVars>>

\* cam.start(FrameType::DepthFrame).unwrap()
ClientStart(status) ==
    /\ pc = "start"
    /\ LET o == unwrap(start(camera, status), "start")
       IN  /\ Apply(o)
           /\ trace' = trace \o o.calls
           /\ pc' = IF o.ret.kind = "Panic" THEN "unwind" ELSE "connect"
    /\ UNCHANGED <<camLive, frames, outstanding, nextFrame, quit, rasterVars, serverVars, waitVars>>

\* args().nth(1).unwrap(), TcpStream::connect(..).unwrap(), named_window(..).unwrap()
ClientConnect(ok) ==
    /\ pc = "connect"
    /\ Goes(ok, "request")
    /\ UNCHANGED <<camera, camLive, frames, outstanding, nextFrame, ret, pre, calls>>
    /\ UNCHANGED <<quit, trace, rasterVars, serverVars, waitVars>>

\* let frame = cam.request_frame(Some(Duration::from_millis(200))).unwrap()
ClientRequest(nonNull) ==
    /\ pc = "request"
    /\ CanBorrowMut
    /\ nonNull => nextFrame < MaxFrames
    /\ LET ptr == IF nonNull THEN nextFrame + 1 ELSE 0
           o == unwrap(request_frame(camera, ptr), "request_frame")
       IN  /\ Apply(o)
           /\ Acquire(ptr)
           /\ trace' = trace \o o.calls
           /\ pc' = IF o.ret.kind = "Panic" THEN "unwind" ELSE "depth"
    /\ timeout' = Millis(200)
    /\ waited' = [some |-> TRUE, val |-> request_frame_timeout(Millis(200))]
    /\ UNCHANGED <<camLive, quit, rasterVars, serverVars>>

\* frame.get_depth_data(): panics when the driver returns a null pointer
get_depth_data(f, null) ==
    IF null THEN <<Call("arducamCameraGetDepthData", f, 0)>>
    ELSE <<Call("arducamCameraGetDepthData", f, 0), Call("arducamCameraGetFormat", f, 0)>>

\* frame.get_confidence_data(): panics when the driver returns a null pointer
get_confidence_data(f, null) ==
    IF null THEN <<Call("arducamCameraGetAmplitudeData", f, 0)>>
    ELSE <<Call("arducamCameraGetAmplitudeData", f, 0), Call("arducamCameraGetFormat", f, 0)>>

ClientDepth(null) ==
    /\ pc = "depth"
    /\ Goes(~null, "confidence")
    /\ trace' = trace \o get_depth_data(frame, null)
    /\ UNCHANGED <<camera, camLive, frames, outstanding, nextFrame, ret, pre, calls>>
    /\ UNCHANGED <<quit, rasterVars, serverVars, waitVars>>

ClientConfidence(null) ==
    /\ pc = "confidence"
    /\ Goes(~null, "assert")
    /\ trace' = trace \o get_confidence_data(frame, null)
    /\ UNCHANGED <<camera, camLive, frames, outstanding, nextFrame, ret, pre, calls>>
    /\ UNCHANGED <<quit, rasterVars, serverVars, waitVars>>

\* assert!(depth.width() == confidence.width()); assert!(depth.height() == ...)
ClientAssert(same) ==
    /\ pc = "assert"
    /\ Goes(same, "project")
    /\ UNCHANGED <<camera, camLive, frames, outstanding, nextFrame, ret, pre, calls>>
    /\ UNCHANGED <<quit, trace, rasterVars, serverVars, waitVars>>

\* the projection loop reads both rasters of the frame
ClientProject ==
    /\ pc = "project"
    /\ Goes(TRUE, "serialize")
    /\ trace' = Append(trace, Call("read", frame, 0))
    /\ UNCHANGED <<camera, camLive, frames, outstanding, nextFrame, ret, pre, calls>>
    /\ UNCHANGED <<quit, rasterVars, serverVars, waitVars>>

\* points.serialize(&mut stream).unwrap()
ClientSerialize(ok) ==
    /\ pc = "serialize"
    /\ Goes(ok, "imshow")
    /\ UNCHANGED <<camera, camLive, frames, outstanding, nextFrame, ret, pre, calls>>
    /\ UNCHANGED <<quit, trace, rasterVars, serverVars, waitVars>>

\* Mat::new_rows_cols_with_data(.., depth.as_slice()).unwrap(); imshow(..).unwrap():
\* the Mat borrows the depth raster, imshow reads it
ClientImshow(ok) ==
    /\ pc = "imshow"
    /\ Goes(ok, "wait_key")
    /\ trace' = Append(trace, Call("read", frame, 0))
    /\ UNCHANGED <<camera, camLive, frames, outstanding, nextFrame, ret, pre, calls>>
    /\ UNCHANGED <<quit, rasterVars, serverVars, waitVars>>

\* let key = wait_key(10).unwrap(); if key == 'q' { break; }
ClientWaitKey(key) ==
    /\ pc = "wait_key"
    /\ Goes(key # "error", "end_of_iteration")
    /\ quit' = (key = "q")
    /\ UNCHANGED <<camera, camLive, frames, outstanding, nextFrame, ret, pre, calls>>
    /\ UNCHANGED <<trace, rasterVars, serverVars, waitVars>>

\* the loop body's scope ends (by break or by falling through): frame is dropped
ClientEndOfIteration(status) ==
    /\ pc = "end_of_iteration"
    /\ LET o == ArducamFrameBuffer_drop(camera, frame, status)
       IN  /\ Apply(o)
           /\ Release(frame, status)
           /\ trace' = trace \o o.calls
           /\ pc' = IF o.ret.kind = "Panic" THEN "unwind"
                    ELSE IF quit THEN "exit" ELSE "request"
    /\ UNCHANGED <<camLive, nextFrame, quit, rasterVars, serverVars, waitVars>>

\* main returns: cam is dropped
ClientExit(status) ==
    /\ pc = "exit"
    /\ camLive /\ CanBorrowMut
    /\ LET o == ArducamDepthCamera_drop(camera, status)
       IN  /\ camera' = o.self /\ ret' = o.ret /\ calls' = o.calls /\ pre' = camera
           /\ thread' = IF o.ret.kind = "Panic" THEN "panicking" ELSE "finished"
           /\ trace' = trace \o o.calls
           /\ pc' = IF o.ret.kind = "Panic" THEN "unwound" ELSE "done"
    /\ camLive' = FALSE
    /\ UNCHANGED <<frames, outstanding, nextFrame, quit, rasterVars, serverVars, waitVars>>

\* unwinding drops the frame of the iteration that panicked
UnwindFrame(status) ==
    /\ pc = "unwind"
    /\ frames # {}
    /\ LET o == ArducamFrameBuffer_drop(camera, frame, status)
       IN  /\ Apply(o)
           /\ Release(frame, status)
           /\ trace' = trace \o o.calls
           /\ pc' = IF o.ret.kind = "Panic" THEN "aborted" ELSE "unwind"
    /\ UNCHANGED <<camLive, nextFrame, quit, rasterVars, serverVars, waitVars>>

\* unwinding drops the camera last
UnwindCamera(status) ==
    /\ pc = "unwind"
    /\ camLive /\ CanBorrowMut
    /\ LET o == ArducamDepthCamera_drop(camera, status)
       IN  /\ Apply(o)
           /\ trace' = trace \o o.calls
           /\ pc' = IF o.ret.kind = "Panic" THEN "aborted" ELSE "unwound"
    /\ camLive' = FALSE
    /\ UNCHANGED <<frames, outstanding, nextFrame, quit, rasterVars, serverVars, waitVars>>

ClientNext ==
    \/ \E status \in Statuses : ClientOpen(status)
    \/ \E status \in Statuses : ClientStart(status)
    \/ \E ok \in BOOLEAN : ClientConnect(ok)
    \/ \E nonNull \in BOOLEAN : ClientRequest(nonNull)
    \/ \E null \in BOOLEAN : ClientDepth(null)
    \/ \E null \in BOOLEAN : ClientConfidence(null)
    \/ \E same \in BOOLEAN : ClientAssert(same)
    \/ ClientProject
    \/ \E ok \in BOOLEAN : ClientSerialize(ok)
    \/ \E ok \in BOOLEAN : ClientImshow(ok)
    \/ \E key \in {"q", "other", "error"} : ClientWaitKey(key)
    \/ \E status \in Statuses : ClientEndOfIteration(status)
    \/ \E status \in Statuses : ClientExit(status)
    \/ \E status \in Statuses : UnwindFrame(status)
    \/ \E status \in Statuses : UnwindCamera(status)

ClientSpec == ClientInit /\ [][ClientNext]_vars


(***************************************************************************)
(* The raster functions (specification RasterSpec): FrameData::get and the *)
(* projection loops of point_cloud_client.rs and point_cloud.rs, applied   *)
(* to every depth and confidence raster of at most MaxCells cells.         *)
(***************************************************************************)
\* the sample values of the rasters: 0 is a depth of zero
Samples == {0, 1}

Dims == {d \in (0..MaxCells) \X (0..MaxCells) : d[1] * d[2] <= MaxCells}

\* get_depth_data / get_confidence_data: the slice holds width * height samples
FrameDatas(w, h) ==
    {[width |-> w, height |-> h, data |-> d] : d \in [1..(w * h) -> Samples]}

\* the coordinates passed to get (u16)
Coords == 0..MaxCells

\* row-major: the sample of row r, column c (both counted from 0)
SampleAt(self, r, c) == self.data[r * self.width + c + 1]

\* slice::get(index).copied()
slice_get(data, index) == IF index < Len(data) THEN Some(data[index + 1]) ELSE None

\* FrameData::get
FrameData_get(self, x, y) == slice_get(self.data, x + y * self.width)

Min(a, b) == IF a < b THEN a ELSE b

\* a projection that leaves out the cells of depth zero
client_pixels_skipping_zero(d, c) ==
    SelectSeq([k \in 1..Min(Len(d.data), Len(c.data)) |->
                  [row |-> (k - 1) % d.width, column |-> (k - 1) \div d.width,
                   d |-> d.data[k], c |-> c.data[k]]],
              LAMBDA p : p.d # 0)

\* depth.as_slice().iter().enumerate().zip(confidence.as_slice())
\*     .map(|((i, d), c)| (i % width, i / width, d, c))
\* the names row and column are those the for loop binds the tuple to
client_pixels(d, c) ==
    [k \in 1..Min(Len(d.data), Len(c.data)) |->
        [row |-> (k - 1) % d.width, column |-> (k - 1) \div d.width,
         d |-> d.data[k], c |-> c.data[k]]]

\* the for loop of point_cloud_client.rs.  x is (xoff / fx) * z and y is
\* (yoff / fy) * z in f32; the model keeps the integer offsets
client_project(d, c) ==
    LET pixels == client_pixels(d, c)
    IN  [k \in 1..Len(pixels) |->
            [xoff |-> (d.width \div 2) - pixels[k].column,
             yoff |-> (d.height \div 2) - pixels[k].row,
             z |-> pixels[k].d,
             confidence |-> pixels[k].c]]

\* depth.as_slice().iter().enumerate().map(|(i, d)| (i % width, i / width, d))
local_pixels(d) ==
    [k \in 1..Len(d.data) |->
        [row |-> (k - 1) % d.width, column |-> (k - 1) \div d.width, d |-> d.data[k]]]

\* the for loop of point_cloud.rs: every point is pushed with the colour (1, 1, 1)
local_project(d) ==
    LET pixels == local_pixels(d)
    IN  [k \in 1..Len(pixels) |->
            [xoff |-> (d.width \div 2) - pixels[k].column,
             yoff |-> (d.height \div 2) - pixels[k].row,
             z |-> pixels[k].d,
             colour |-> <<1, 1, 1>>]]

RasterInit ==
    /\ CamInit /\ ClientIdle /\ ServerIdle
    /\ \E dim \in Dims :
          /\ depth \in FrameDatas(dim[1], dim[2])
          /\ confidence \in FrameDatas(dim[1], dim[2])
    /\ arg = <<>>
    /\ got = None
    /\ points = <<>>
    /\ projected = "none"

Get(x, y) ==
    /\ arg' = <<x, y>>
    /\ got' = FrameData_get(depth, x, y)
    /\ UNCHANGED <<depth, confidence, points, projected>>
    /\ UNCHANGED <<camVars, clientVars, serverVars, waitVars>>

ProjectClient ==
    /\ depth.width = confidence.width
    /\ depth.height = confidence.height
    /\ points' = client_project(depth, confidence)
    /\ projected' = "client"
    /\ UNCHANGED <<depth, confidence, arg, got>>
    /\ UNCHANGED <<camVars, clientVars, serverVars, waitVars>>

ProjectLocal ==
    /\ points' = local_project(depth)
    /\ projected' = "local"
    /\ UNCHANGED <<depth, confidence, arg, got>>
    /\ UNCHANGED <<camVars, clientVars, serverVars, waitVars>>

RasterNext ==
    \/ \E x \in Coords, y \in Coords : Get(x, y)
    \/ ProjectClient
    \/ ProjectLocal

RasterSpec == RasterInit /\ [][RasterNext]_vars


(***************************************************************************)
(* The wire format between point_cloud_client.rs and point_cloud_server.rs *)
(* (specification WireSpec).  Both ends use bincode's DefaultOptions: a    *)
(* sequence is its length as a variable-length integer followed by its     *)
(* elements, a struct is its fields in declaration order, an f32 is its    *)
(* four bytes, least significant first.  The stream carries no delimiter.  *)
(*                                                                         *)
(* An f32 is modelled by its value in tenths; f32_to_bits gives the        *)
(* IEEE-754 bit pattern of each value of the model.                        *)
(***************************************************************************)
F32 == {0, 1, 2, 5, 8, 9, 10, 15, 20}

f32_to_bits(v) ==
    CASE v = 0  -> 0
      [] v = 1  -> 1036831949
      [] v = 2  -> 1045220557
      [] v = 5  -> 1056964608
      [] v = 8  -> 1061997773
      [] v = 9  -> 1063675494
      [] v = 10 -> 1065353216
      [] v = 15 -> 1069547520
      [] v = 20 -> 1073741824

\* a bit pattern outside the table is a float the model has no name for: it
\* is named by its pattern, below every value of the table
f32_from_bits(b) ==
    IF \E v \in F32 : f32_to_bits(v) = b
    THEN CHOOSE v \in F32 : f32_to_bits(v) = b
    ELSE (0 - 1) - b

to_le_bytes(b) ==
    <<b % 256, (b \div 256) % 256, (b \div 65536) % 256, (b \div 16777216) % 256>>

from_le_bytes(s) == s[1] + 256 * s[2] + 65536 * s[3] + 16777216 * s[4]

serialize_f32(v) == to_le_bytes(f32_to_bits(v))

\* the length prefix: one byte below 251, else a marker and a fixed-width
\* little-endian integer
serialize_len(n) ==
    IF n < 251 THEN <<n>>
    ELSE IF n < 65536 THEN <<251, n % 256, n \div 256>>
    ELSE <<252>> \o to_le_bytes(n)

\* #[derive(Serialize)] struct MyPoint { x, y, z, confidence }
serialize_MyPoint(p) ==
    serialize_f32(p.x) \o serialize_f32(p.y) \o serialize_f32(p.z)
        \o serialize_f32(p.confidence)

\* a serializer that writes the points of a batch last to first
RECURSIVE serialize_seq_reversed(_)
serialize_seq_reversed(ps) ==
    IF ps = <<>> THEN <<>>
    ELSE serialize_seq_reversed(Tail(ps)) \o serialize_MyPoint(Head(ps))

RECURSIVE serialize_seq(_)
serialize_seq(ps) ==
    IF ps = <<>> THEN <<>> ELSE serialize_MyPoint(Head(ps)) \o serialize_seq(Tail(ps))

\* points.serialize(&mut stream)
serialize(ps) == serialize_len(Len(ps)) \o serialize_seq(ps)

\* The result of reading from the stream: "ok" with the value read and the
\* bytes after it, "eof" when the stream holds fewer bytes than the value
\* needs, "invalid" when the bytes are no encoding.
Read(st, v, rest) == [status |-> st, value |-> v, rest |-> rest]

Drop(s, n) == SubSeq(s, n + 1, Len(s))
Take(s, n) == SubSeq(s, 1, n)

deserialize_f32(s) ==
    IF Len(s) < 4 THEN Read("eof", 0, s)
    ELSE Read("ok", f32_from_bits(from_le_bytes(s)), Drop(s, 4))

deserialize_len(s) ==
    IF s = <<>> THEN Read("eof", 0, s)
    ELSE IF s[1] < 251 THEN Read("ok", s[1], Tail(s))
    ELSE IF s[1] = 251
         THEN IF Len(s) < 3 THEN Read("eof", 0, s)
              ELSE Read("ok", s[2] + 256 * s[3], Drop(s, 3))
    ELSE IF s[1] = 252
         THEN IF Len(s) < 5 THEN Read("eof", 0, s)
              ELSE Read("ok", from_le_bytes(Tail(s)), Drop(s, 5))
    ELSE Read("invalid", 0, s)

\* a server that reads y before x: it decodes a different point
deserialize_MyPoint_y_first(s) ==
    LET y == deserialize_f32(s)
        x == deserialize_f32(y.rest)
        z == deserialize_f32(x.rest)
        c == deserialize_f32(z.rest)
    IN  IF c.status # "ok" THEN Read("eof", 0, s)
        ELSE Read("ok", [x |-> x.value, y |-> y.value, z |-> z.value,
                         confidence |-> c.value], c.rest)

\* #[derive(Deserialize)] struct MyPoint { x, y, z, confidence }
deserialize_MyPoint(s) ==
    LET x == deserialize_f32(s)
        y == deserialize_f32(x.rest)
        z == deserialize_f32(y.rest)
        c == deserialize_f32(z.rest)
    IN  IF c.status # "ok" THEN Read("eof", 0, s)
        ELSE Read("ok", [x |-> x.value, y |-> y.value, z |-> z.value,
                         confidence |-> c.value], c.rest)

RECURSIVE deserialize_seq(_, _)
deserialize_seq(s, n) ==
    IF n = 0 THEN Read("ok", <<>>, s)
    ELSE LET p == deserialize_MyPoint(s)
         IN  IF p.status # "ok" THEN Read(p.status, <<>>, s)
             ELSE LET ps == deserialize_seq(p.rest, n - 1)
                  IN  IF ps.status # "ok" THEN Read(ps.status, <<>>, s)
                      ELSE Read("ok", <<p.value>> \o ps.value, ps.rest)

\* Vec::<MyPoint>::deserialize(&mut stream)
deserialize(s) ==
    LET n == deserialize_len(s)
    IN  IF n.status # "ok" THEN Read(n.status, <<>>, s)
        ELSE LET ps == deserialize_seq(n.rest, n.value)
             IN  IF ps.status # "ok" THEN Read(ps.status, <<>>, s) ELSE ps

\* the variables of the capture side, which the server never touches
deviceVars == <<camVars, clientVars, rasterVars, waitVars>>
wireVars == <<conn, wire, sent>>
ctlVars == <<ctl, input, out, cmdChan>>
appVars == <<max_depth, min_depth, confidence_range, renderer, taken, pushed, exit>>

MaxPoints == 1
MaxBatches == 2

WirePoints ==
    { [x |-> 0, y |-> 5, z |-> 10, confidence |-> 2],
      [x |-> 15, y |-> 1, z |-> 20, confidence |-> 8] }

SeqsUpTo(S, n) == UNION { [1..k -> S] : k \in 0..n }

WireBatches == SeqsUpTo(WirePoints, MaxPoints)

WireInit == CamInit /\ ClientIdle /\ RasterIdle /\ ServerIdle

\* points.serialize(&mut stream).unwrap(): the client writes one batch
WireSend(batch) ==
    /\ conn = "open"
    /\ Len(sent) < MaxBatches
    /\ wire' = wire \o serialize(batch)
    /\ sent' = Append(sent, batch)
    /\ UNCHANGED <<deviceVars, conn, tcp, decoded, pointChan, ctlVars, appVars>>

\* the client ends, between two batches (cut = 0) or while it writes one: the
\* connection closes after the bytes written so far
WireClose(batch, cut) ==
    /\ conn = "open"
    /\ cut < Len(serialize(batch))
    /\ wire' = wire \o Take(serialize(batch), cut)
    /\ conn' = "closed"
    /\ UNCHANGED <<deviceVars, sent, tcp, decoded, pointChan, ctlVars, appVars>>

\* tcp_thread: bind and accept, each unwrapped
TcpAccept(ok) ==
    /\ exit = "none"
    /\ tcp = "listening"
    /\ tcp' = IF ok THEN "connected" ELSE "unbound"
    /\ UNCHANGED <<deviceVars, wireVars, decoded, pointChan, ctlVars, appVars>>

\* tcp_thread, one turn of its loop: decode one batch and send it to the point
\* channel.  A read blocks while the connection is open and the bytes of the
\* batch have not all arrived; a decoding error panics the thread.
TcpRecv ==
    /\ exit = "none"
    /\ tcp = "connected"
    /\ LET r == deserialize(wire)
       IN  /\ r.status = "eof" => conn = "closed"
           /\ IF r.status = "ok"
              THEN /\ wire' = r.rest
                   /\ decoded' = Append(decoded, r.value)
                   /\ pointChan' = Append(pointChan, r.value)
                   /\ tcp' = tcp
              ELSE /\ tcp' = "dead"
                   /\ UNCHANGED <<wire, decoded, pointChan>>
    /\ UNCHANGED <<deviceVars, conn, sent, ctlVars, appVars>>

WireNext ==
    \/ \E batch \in WireBatches : WireSend(batch)
    \/ \E batch \in WireBatches, cut \in 0..(1 + 16 * MaxPoints) : WireClose(batch, cut)
    \/ \E ok \in BOOLEAN : TcpAccept(ok)
    \/ TcpRecv

WireSpec == WireInit /\ [][WireNext]_vars

(***************************************************************************)
(* examples/point_cloud_server.rs, AppState::step: the callback the window *)
(* runs once per rendered frame.  A colour component is the quotient n / d *)
(* of two numbers in tenths, kept unreduced: the code divides two f32      *)
(* differences, and d = 0 is the division by zero of the code.             *)
(***************************************************************************)
Q(n, d) == [n |-> n, d |-> d]
Red == <<Q(1, 1), Q(0, 1), Q(0, 1)>>
Green == <<Q(0, 1), Q(1, 1), Q(0, 1)>>
White == <<Q(1, 1), Q(1, 1), Q(1, 1)>>

\* let confidence = (point.confidence - low) / (high - low);
\* Point3::new(1.0 - confidence, confidence, 0.0)
Blend(conf, low, high) ==
    <<Q((high - low) - (conf - low), high - low),
      Q(conf - low, high - low),
      Q(0, 1)>>

\* a colour rule that ignores the order of the two bounds
colour_without_inversion(conf, range) ==
    IF range.some
    THEN LET low == range.val.low
             high == range.val.high
         IN  IF conf < low THEN Red
             ELSE IF conf > high THEN Green
             ELSE Blend(conf, low, high)
    ELSE White

\* let colour = match &self.confidence_range { ... }
colour(conf, range) ==
    IF range.some
    THEN LET low == range.val.low
             high == range.val.high
         IN  IF low < high
             THEN IF conf < low THEN Red
                  ELSE IF conf > high THEN Green
                  ELSE Blend(conf, low, high)
             ELSE IF conf > low THEN Red
                  ELSE IF conf < high THEN Green
                  ELSE Blend(conf, low, high)
    ELSE White

\* a test that also drops a point whose depth equals a bound
out_of_depth_inclusive(point, maxd, mind) ==
    \/ maxd.some /\ point.z >= maxd.val
    \/ mind.some /\ point.z =< mind.val

\* the condition of the continue
out_of_depth(point, maxd, mind) ==
    \/ maxd.some /\ point.z > maxd.val
    \/ mind.some /\ point.z < mind.val

\* a loop that skips the first point of the batch and tests no other
for_point_in_points_skipping_first(ps, maxd, mind, range) ==
    [i \in 1..(Len(ps) - 1) |->
        [point |-> ps[i + 1], colour |-> colour(ps[i + 1].confidence, range)]]

\* the loop over a received batch: the points it pushes, each with its colour
RECURSIVE for_point_in_points(_, _, _, _)
for_point_in_points(ps, maxd, mind, range) ==
    IF ps = <<>> THEN <<>>
    ELSE LET point == Head(ps)
             rest == for_point_in_points(Tail(ps), maxd, mind, range)
         IN  IF out_of_depth(point, maxd, mind) THEN rest
             ELSE <<[point |-> point, colour |-> colour(point.confidence, range)]>>
                      \o rest

\* self.point_cloud_renderer.push(Point3::new(point.x, point.y, point.z), colour)
Pushed(entries) ==
    [i \in 1..Len(entries) |->
        [pos |-> <<entries[i].point.x, entries[i].point.y, entries[i].point.z>>,
         colour |-> entries[i].colour]]

\* a thread that has panicked has dropped its sender
Panicked == {"dead", "unbound"}

\* a receiver that reports Disconnected as soon as the sender is gone
Disconnected_ignoring_queue(chan, sender) == sender \in Panicked

\* Err(TryRecvError::Disconnected): the sender has been dropped, its thread
\* having panicked, and every message it sent has been received
Disconnected(chan, sender) == chan = <<>> /\ sender \in Panicked

\* enum Command: the variant and its payload, an Option<f32> for the two
\* depth variants, an Option<RangeInclusive<f32>> for the third
Command(kind, a) ==
    IF kind = "SetConfidenceRange"
    THEN [kind |-> kind, depth |-> None, range |-> a]
    ELSE [kind |-> kind, depth |-> a, range |-> NoRange]

Arg(c) == IF c.kind = "SetConfidenceRange" THEN c.range ELSE c.depth

\* a poll that applies the newest queued command instead of the oldest
AfterCommand_newest(field, kind) ==
    IF cmdChan # <<>> /\ cmdChan[Len(cmdChan)].kind = kind
    THEN Arg(cmdChan[Len(cmdChan)])
    ELSE field

\* the first match of step: at most one command is applied
AfterCommand(field, kind) ==
    IF cmdChan # <<>> /\ Head(cmdChan).kind = kind THEN Arg(Head(cmdChan)) ELSE field

\* AppState::step.  A sender is dropped when its thread has panicked;
\* try_recv reports Disconnected only once the channel is empty as well.
Step ==
    /\ exit = "none"
    /\ max_depth' = AfterCommand(max_depth, "SetMaxDepth")
    /\ min_depth' = AfterCommand(min_depth, "SetMinDepth")
    /\ confidence_range' = AfterCommand(confidence_range, "SetConfidenceRange")
    /\ cmdChan' = IF cmdChan # <<>> THEN Tail(cmdChan) ELSE cmdChan
    /\ IF Disconnected(cmdChan, ctl)
       THEN /\ exit' = "2"
            /\ UNCHANGED <<pointChan, renderer, taken, pushed>>
       ELSE IF Disconnected(pointChan, tcp)
       THEN /\ exit' = "1"
            /\ UNCHANGED <<pointChan, renderer, taken, pushed>>
       ELSE IF pointChan # <<>>
       THEN LET entries == for_point_in_points(Head(pointChan), max_depth', min_depth',
                                               confidence_range')
            IN  /\ renderer' = Pushed(entries)
                /\ pushed' = [i \in 1..Len(entries) |-> entries[i].point]
                /\ taken' = Append(taken, Head(pointChan))
                /\ pointChan' = Tail(pointChan)
                /\ exit' = exit
       ELSE UNCHANGED <<pointChan, renderer, taken, pushed, exit>>
    /\ UNCHANGED <<deviceVars, wireVars, tcp, decoded, ctl, input, out>>

\* control_thread: stdin.read_line(&mut input).unwrap() fails, on a read error
\* or on input that is not UTF-8; the panic drops the command sender
ControlPanic ==
    /\ exit = "none"
    /\ ctl = "running"
    /\ ctl' = "dead"
    /\ UNCHANGED <<deviceVars, wireVars, tcp, decoded, pointChan, input, out, cmdChan, appVars>>

(***************************************************************************)
(* The render loop on one received batch (specification RenderSpec): step  *)
(* applied to every batch of at most MaxBatchLen points, under every       *)
(* filter state over the depths and ranges below.  Depths and confidences  *)
(* are in tenths.                                                          *)
(***************************************************************************)
MaxBatchLen == 2

RenderPoints ==
    { [x |-> c, y |-> 0, z |-> z, confidence |-> c] : z \in {2, 5, 8}, c \in {0, 5, 10} }
    \cup { [x |-> c, y |-> 0, z |-> 5, confidence |-> c] : c \in {1, 9} }

DepthBounds == {None, Some(2), Some(5), Some(8)}

ConfidenceRanges == {NoRange, Range(2, 8), Range(8, 2), Range(5, 5)}

RenderInit ==
    /\ CamInit /\ ClientIdle /\ RasterIdle
    /\ conn = "open" /\ wire = <<>> /\ sent = <<>> /\ tcp = "connected"
    /\ decoded = <<>>
    /\ \E batch \in SeqsUpTo(RenderPoints, MaxBatchLen) : pointChan = <<batch>>
    /\ ctl = "running" /\ input = <<>> /\ out = "" /\ cmdChan = <<>>
    /\ max_depth \in DepthBounds
    /\ min_depth \in DepthBounds
    /\ confidence_range \in ConfidenceRanges
    /\ renderer = <<>> /\ taken = <<>> /\ pushed = <<>> /\ exit = "none"

RenderNext == Step

RenderSpec == RenderInit /\ [][RenderNext]_vars

(***************************************************************************)
(* The render loop on queued commands and batches (specification           *)
(* TickSpec): step applied tick after tick to every pair of queues of at   *)
(* most MaxQueued commands and MaxQueued batches, with the two senders     *)
(* alive or gone.                                                          *)
(***************************************************************************)
MaxQueued == 2

\* the commands queued, by number
TickCommand(k) ==
    CASE k = 1 -> Command("SetMaxDepth", None)
      [] k = 2 -> Command("SetMaxDepth", Some(2))
      [] k = 3 -> Command("SetMinDepth", Some(8))
      [] k = 4 -> Command("SetConfidenceRange", Range(8, 2))

TickPoint(z) == [x |-> z, y |-> 0, z |-> z, confidence |-> 5]

TickBatches == { <<>>, <<TickPoint(5)>>, <<TickPoint(2), TickPoint(8)>> }

TickInit ==
    /\ CamInit /\ ClientIdle /\ RasterIdle
    /\ conn = "open" /\ wire = <<>> /\ sent = <<>>
    /\ tcp \in {"connected", "dead"}
    /\ decoded = <<>>
    /\ pointChan \in SeqsUpTo(TickBatches, MaxQueued)
    /\ ctl \in {"running", "dead"}
    /\ input = <<>> /\ out = ""
    /\ \E ks \in SeqsUpTo(1..4, MaxQueued) :
           cmdChan = [i \in 1..Len(ks) |-> TickCommand(ks[i])]
    /\ max_depth \in {None, Some(5)}
    /\ min_depth \in {None, Some(5)}
    /\ confidence_range = NoRange
    /\ renderer = <<>> /\ taken = <<>> /\ pushed = <<>> /\ exit = "none"

TickNext == Step

TickSpec == TickInit /\ [][TickNext]_vars

(***************************************************************************)
(* examples/point_cloud_server.rs, control_thread (specification           *)
(* CommandSpec).  A line is the sequence of its chunks: a chunk is a word  *)
(* without white space, a single space, or the newline that ends the line. *)
(* Every prefix the code matches ends at a chunk boundary, so matching     *)
(* chunks is matching characters.                                          *)
(***************************************************************************)
WhiteSpace == {" ", "\n"}

RECURSIVE trim_start(_)
trim_start(s) ==
    IF s # <<>> /\ Head(s) \in WhiteSpace THEN trim_start(Tail(s)) ELSE s

RECURSIVE trim_end(_)
trim_end(s) ==
    IF s # <<>> /\ s[Len(s)] \in WhiteSpace THEN trim_end(Take(s, Len(s) - 1)) ELSE s

trim(s) == trim_end(trim_start(s))

starts_with(s, prefix) == Len(prefix) <= Len(s) /\ Take(s, Len(prefix)) = prefix

strip_prefix(s, prefix) == Drop(s, Len(prefix))

\* str::parse::<f32>: the whole string must be one number; white space is not
\* skipped.  The numbers of the model, in tenths.
Numerals == {"0.2", "0.8"}

f32_value(chunk) == IF chunk = "0.2" THEN 2 ELSE 8

\* a parse that reads anything that is not a number as zero
parse_f32_or_zero(s) ==
    IF Len(s) = 1 /\ s[1] \in Numerals
    THEN [ok |-> TRUE, val |-> f32_value(s[1])]
    ELSE [ok |-> TRUE, val |-> 0]

parse_f32(s) ==
    IF Len(s) = 1 /\ s[1] \in Numerals
    THEN [ok |-> TRUE, val |-> f32_value(s[1])]
    ELSE [ok |-> FALSE, val |-> 0]

\* a split that hands back the two parts in the other order
split_once_swapped(s) ==
    IF \E i \in 1..Len(s) : s[i] = " "
    THEN LET i == CHOOSE i \in 1..Len(s) : s[i] = " " /\ \A j \in 1..(i - 1) : s[j] # " "
         IN  [some |-> TRUE, low |-> Drop(s, i), high |-> Take(s, i - 1)]
    ELSE [some |-> FALSE, low |-> <<>>, high |-> <<>>]

\* str::split_once(' '): the parts before and after the first space
split_once(s) ==
    IF \E i \in 1..Len(s) : s[i] = " "
    THEN LET i == CHOOSE i \in 1..Len(s) : s[i] = " " /\ \A j \in 1..(i - 1) : s[j] # " "
         IN  [some |-> TRUE, low |-> Take(s, i - 1), high |-> Drop(s, i)]
    ELSE [some |-> FALSE, low |-> <<>>, high |-> <<>>]

ClearMaxDepth == <<"clear", " ", "max", " ", "depth">>
ClearMinDepth == <<"clear", " ", "min", " ", "depth">>
ClearConfidenceRange == <<"clear", " ", "confidence", " ", "range">>
SetMaxDepth == <<"set", " ", "max", " ", "depth">>
SetMinDepth == <<"set", " ", "min", " ", "depth">>
SetConfidenceRange == <<"set", " ", "confidence", " ", "range">>

\* what one turn of the loop prints and sends for the line it read
Turn(print, send) == [print |-> print, send |-> send]

Usage == "set confidence range <LOW> <HIGH>"

\* one turn of control_thread's loop, after read_line has returned the line
control_thread(line) ==
    LET s == trim(line)
    IN  IF s = <<>> THEN Turn("", <<>>)
        ELSE IF s = ClearMaxDepth THEN Turn("", <<Command("SetMaxDepth", None)>>)
        ELSE IF s = ClearMinDepth THEN Turn("", <<Command("SetMinDepth", None)>>)
        ELSE IF s = ClearConfidenceRange
             THEN Turn("", <<Command("SetConfidenceRange", NoRange)>>)
        ELSE IF starts_with(s, SetMaxDepth \o <<" ">>)
             THEN LET v == parse_f32(strip_prefix(s, SetMaxDepth \o <<" ">>))
                  IN  IF v.ok THEN Turn("", <<Command("SetMaxDepth", Some(v.val))>>)
                      ELSE Turn("{e}", <<>>)
        ELSE IF starts_with(s, SetMinDepth \o <<" ">>)
             THEN LET v == parse_f32(strip_prefix(s, SetMinDepth \o <<" ">>))
                  IN  IF v.ok THEN Turn("", <<Command("SetMinDepth", Some(v.val))>>)
                      ELSE Turn("{e}", <<>>)
        ELSE IF starts_with(s, SetConfidenceRange \o <<" ">>)
             THEN LET range == split_once(strip_prefix(s, SetConfidenceRange \o <<" ">>))
                      low == parse_f32(range.low)
                      high == parse_f32(range.high)
                  IN  IF ~range.some THEN Turn(Usage, <<>>)
                      ELSE IF ~low.ok THEN Turn("Bad lower bound: {e}", <<>>)
                      ELSE IF ~high.ok THEN Turn("Bad higher bound: {e}", <<>>)
                      ELSE Turn("", <<Command("SetConfidenceRange",
                                              Range(low.val, high.val))>>)
        ELSE Turn("Unrecognised input", <<>>)

MaxLines == 2
MaxArgs == 3

\* the lines typed: an optional command phrase, then up to MaxArgs arguments,
\* each after a space (or the first after two), then the newline
Heads ==
    { <<>>, <<"hello">>, ClearMaxDepth, ClearMinDepth, ClearConfidenceRange,
      SetMaxDepth, SetMinDepth, SetConfidenceRange }

Words == Numerals \cup {"x"}

RECURSIVE Spaced(_)
Spaced(args) == IF args = <<>> THEN <<>> ELSE <<" ", Head(args)>> \o Spaced(Tail(args))

Typed(head, gap, args) == head \o gap \o Spaced(args) \o <<"\n">>

Lines ==
    { Typed(head, gap, args) :
        head \in Heads, gap \in {<<>>, <<" ">>}, args \in SeqsUpTo(Words, MaxArgs) }

\* the lines typed after the first
FollowUps ==
    { Typed(SetMaxDepth, <<>>, <<"0.2">>),
      Typed(SetConfidenceRange, <<>>, <<"0.8", "0.2">>),
      Typed(ClearMinDepth, <<>>, <<>>) }

\* control_thread reads a line, prints and sends
ControlLine(line) ==
    /\ exit = "none"
    /\ ctl = "running"
    /\ Len(input) < MaxLines
    /\ input' = Append(input, line)
    /\ out' = control_thread(line).print
    /\ cmdChan' = cmdChan \o control_thread(line).send
    /\ UNCHANGED <<deviceVars, wireVars, tcp, decoded, pointChan, ctl, appVars>>

\* the last read found the end of the input
AtEof == input # <<>> /\ input[Len(input)] = <<>>

\* control_thread reads at the end of the input: read_line returns Ok(0) and
\* leaves the line empty.  Reading there again changes nothing.
ControlEof ==
    /\ exit = "none"
    /\ ctl = "running"
    /\ input' = IF AtEof THEN input ELSE Append(input, <<>>)
    /\ out' = control_thread(<<>>).print
    /\ cmdChan' = cmdChan \o control_thread(<<>>).send
    /\ UNCHANGED <<deviceVars, wireVars, tcp, decoded, pointChan, ctl, appVars>>

\* the filter state the render loop holds when the line is typed
CommandInit ==
    /\ CamInit /\ ClientIdle /\ RasterIdle
    /\ conn = "open" /\ wire = <<>> /\ sent = <<>> /\ tcp = "listening"
    /\ decoded = <<>> /\ pointChan = <<>>
    /\ ctl = "running" /\ input = <<>> /\ out = "" /\ cmdChan = <<>>
    /\ max_depth \in {None, Some(8)}
    /\ min_depth \in {None, Some(2)}
    /\ confidence_range \in {NoRange, Range(2, 8)}
    /\ renderer = <<>> /\ taken = <<>> /\ pushed = <<>> /\ exit = "none"

CommandNext ==
    \/ \E line \in (IF input = <<>> THEN Lines ELSE FollowUps) : ControlLine(line)
    \/ ControlEof
    \/ ControlPanic
    \/ Step

CommandSpec == CommandInit /\ [][CommandNext]_vars

\* the window keeps rendering frames and control_thread keeps reading
FairCommandSpec == CommandSpec /\ WF_vars(Step) /\ WF_vars(ControlEof)

(***************************************************************************)
(* The server as a whole (specification ServerSpec): the client's stream,  *)
(* tcp_thread, control_thread and the render loop's step, interleaved in   *)
(* any order.  The two channels come from std::sync::mpsc::channel(): a    *)
(* send never blocks.                                                      *)
(***************************************************************************)
ServerNext ==
    \/ \E batch \in WireBatches : WireSend(batch)
    \/ \E batch \in WireBatches, cut \in 0..1 : WireClose(batch, cut)
    \/ \E ok \in BOOLEAN : TcpAccept(ok)
    \/ TcpRecv
    \/ ControlPanic
    \/ Step

ServerSpec == WireInit /\ [][ServerNext]_vars

(***************************************************************************)
(* From the client's serializer to the server's renderer (specification    *)
(* EndToEndSpec): batches of up to MaxBatchLen points written by the       *)
(* client, decoded by tcp_thread and rendered by step, with no command     *)
(* ever typed, so that no filter is active.                                *)
(***************************************************************************)
EndToEndNext ==
    \/ \E batch \in SeqsUpTo(WirePoints, MaxBatchLen) : WireSend(batch)
    \/ WireClose(<<>>, 0)
    \/ \E ok \in BOOLEAN : TcpAccept(ok)
    \/ TcpRecv
    \/ Step

EndToEndSpec == WireInit /\ [][EndToEndNext]_vars

\* the window keeps rendering frames: step runs again and again
FairServerSpec == ServerSpec /\ WF_vars(Step)

(***************************************************************************)
(* Properties.                                                             *)
(***************************************************************************)
\* the last wrapper call invoked the driver function fn
Called(fn) == \E i \in 1..Len(calls) : calls[i].fn = fn

DroppedCamera == ret.op = "ArducamDepthCamera::drop"

\* C1: when the camera is dropped, the driver's stop is attempted iff the
\* camera was Started at that moment, the driver's close is attempted iff it
\* was Opened at that moment, and stop comes before close when both are.
C1_DropStopsThenCloses ==
    DroppedCamera =>
        /\ Called("arducamCameraStop") <=> pre.started
        /\ Called("arducamCameraClose") <=> pre.opened
        /\ \A i, j \in 1..Len(calls) :
              (calls[i].fn = "arducamCameraStop" /\ calls[j].fn = "arducamCameraClose")
                  => i < j

\* C2: close() on an Opened camera invokes the driver's close and returns a
\* Result: Ok(()) with the camera no longer Opened when the native status is
\* zero, Err(CloseError) carrying the status with the camera still Opened
\* otherwise.
C2_CloseReturnsResult ==
    (ret.op = "close" /\ pre.opened) =>
        /\ Len(calls) = 1
        /\ calls[1].fn = "arducamCameraClose"
        /\ \/ calls[1].status = 0 /\ ret.kind = "Ok" /\ ~camera.opened
           \/ /\ calls[1].status # 0
              /\ ret.kind = "Err" /\ ret.err = "CloseError"
              /\ ret.code = calls[1].status
              /\ camera.opened

\* C3: in every state in which start has not succeeded (Created, or Opened but
\* not Started, also after a successful stop), request_frame returns
\* Err(RequestFrameError) and produces no FrameBuffer.
C3_NoFrameUnlessStarted ==
    (ret.op = "request_frame" /\ ~pre.started) =>
        /\ ret.kind = "Err" /\ ret.err = "RequestFrameError"
        /\ frames = {}

ErrorOf(op) ==
    CASE op = "open" -> "OpenError"
      [] op = "start" -> "StartError"
      [] op = "stop" -> "StopError"

Succeeded(op, self) ==
    CASE op = "open" -> [self EXCEPT !.opened = TRUE]
      [] op = "start" -> [self EXCEPT !.started = TRUE]
      [] op = "stop" -> [self EXCEPT !.started = FALSE]

\* C4: for each of open, start and stop: on a non-zero driver status the call
\* returns its typed error carrying exactly that status and leaves opened and
\* started as they were; on status zero it returns Ok and changes only its own
\* flag (open sets opened, start sets started, stop clears started).
C4_TypedErrorOrOwnFlag ==
    ret.op \in {"open", "start", "stop"} =>
        /\ Len(calls) = 1
        /\ calls[1].status # 0 =>
              /\ ret.kind = "Err" /\ ret.err = ErrorOf(ret.op)
              /\ ret.code = calls[1].status
              /\ camera = pre
        /\ calls[1].status = 0 =>
              /\ ret.kind = "Ok"
              /\ camera = Succeeded(ret.op, pre)

\* a failed stop of a camera that is Opened and Started
C4_Witness ==
    /\ ret.op = "stop" /\ ret.kind = "Err" /\ ret.code = 0 - MaxStatus
    /\ pre.opened /\ pre.started /\ camera = pre

\* C5: in every reachable state, after any sequence of open, start, stop and
\* close calls and any driver statuses, the camera is Started only if it is
\* Opened.
C5_StartedOnlyIfOpened == camera.started => camera.opened

\* C6: at most one FrameBuffer of a camera is outstanding (requested and not
\* yet released) at any time: when request_frame yields a frame, no earlier
\* frame is unreleased.
C6_AtMostOneFrameOutstanding ==
    /\ Cardinality(frames) <= 1
    /\ Cardinality(outstanding) <= 1
    /\ (ret.op = "request_frame" /\ ret.kind = "Ok") =>
           (frames = {ret.frame} /\ outstanding = {ret.frame})

\* a second frame was requested after the first was released
C6_Witness == ret.op = "request_frame" /\ ret.kind = "Ok" /\ ret.frame = 2 /\ frames = {2}

TeardownFns == {"arducamCameraReleaseFrame", "arducamCameraStop", "arducamCameraClose"}

\* the last wrapper call was a drop in which a driver teardown call failed
TeardownFailed ==
    /\ ret.op \in {"ArducamFrameBuffer::drop", "ArducamDepthCamera::drop"}
    /\ \E i \in 1..Len(calls) : calls[i].fn \in TeardownFns /\ calls[i].status # 0

\* C8: a teardown step (release_frame when a FrameBuffer is dropped, stop or
\* close when the camera is dropped) that gets a non-zero native status
\* panics: it is the last driver call of the drop, the camera is not recorded
\* as stopped or closed, and the thread never runs on afterwards.
C8_TeardownFailureIsFatal ==
    /\ [](TeardownFailed =>
            /\ ret.kind = "Panic"
            /\ thread \in {"panicking", "aborted"}
            /\ calls[Len(calls)].status # 0
            /\ camera = pre)
    /\ [][(thread \in {"panicking", "aborted"}) =>
            (thread' \in {"panicking", "aborted"})]_vars

\* the drop of a Started camera whose stop fails
C8_Witness ==
    /\ TeardownFailed /\ DroppedCamera
    /\ pre.started /\ pre.opened
    /\ calls = <<Call("arducamCameraStop", 0, MaxStatus)>>


\* positions of the trace at which the driver released frame f
Releases(f) ==
    {i \in 1..Len(trace) :
        trace[i].fn = "arducamCameraReleaseFrame" /\ trace[i].frame = f}

\* positions of the trace at which frame f or one of its rasters was accessed
Uses(f) ==
    {i \in 1..Len(trace) :
        /\ trace[i].frame = f
        /\ trace[i].fn \in {"read", "arducamCameraGetDepthData",
                            "arducamCameraGetAmplitudeData", "arducamCameraGetFormat"}}

\* positions of the trace at which the driver's stop or close was called
Teardowns ==
    {i \in 1..Len(trace) : trace[i].fn \in {"arducamCameraStop", "arducamCameraClose"}}

\* C7: in the capture loop, every frame acquired is released exactly once,
\* after the last access to the frame and its rasters and before any stop or
\* close of the camera, on every exit path (end of an iteration, quit key,
\* panic unwinding): a frame has no release while its buffer is live and
\* exactly one from then on, and the camera is dropped only after it.
C7_ReleasedOnceBeforeTeardown ==
    /\ \A f \in 1..nextFrame :
          /\ Cardinality(Releases(f)) = IF f \in frames THEN 0 ELSE 1
          /\ \A i \in Releases(f) : \A j \in Uses(f) : j < i
          /\ \A i \in Releases(f) : \A j \in Teardowns : i < j
          /\ f \in frames => (Teardowns = {} /\ camLive)
    /\ pc \in {"exit", "done", "unwound", "aborted"} => frames = {}

\* the quit key was read in the second iteration and main returned
C7_Witness ==
    /\ pc = "unwound" /\ quit /\ nextFrame = 2
    /\ Releases(1) # {} /\ Releases(2) # {} /\ Teardowns # {}

\* C9: FrameData::get(x, y) returns the sample at column x of row y when
\* x < width and y < height, and None whenever x >= width or y >= height.
C9_GetIsBoundsChecked ==
    arg # <<>> =>
        got = IF arg[1] < depth.width /\ arg[2] < depth.height
              THEN Some(SampleAt(depth, arg[2], arg[1]))
              ELSE None

\* C10: for every width x height depth raster the projector emits exactly
\* width * height points, and the k-th point carries the k-th sample in
\* row-major scan order (row = k div width, column = k mod width, k counted
\* from 0); no cell is skipped, including cells whose depth is zero.
C10_OnePointPerCellInScanOrder ==
    projected # "none" =>
        /\ Len(points) = depth.width * depth.height
        /\ \A k \in 1..Len(points) :
              LET r == (k - 1) \div depth.width
                  c == (k - 1) % depth.width
              IN  /\ points[k].z = SampleAt(depth, r, c)
                  /\ projected = "client" =>
                         points[k].confidence = SampleAt(confidence, r, c)

\* a 2 x 2 raster with cells of depth zero, projected by the client's loop
C10_Witness ==
    /\ projected = "client"
    /\ depth.width = 2 /\ depth.height = 2
    /\ depth.data = <<0, 1, 1, 0>>
    /\ Len(points) = 4


\* (off1 / f) * z and (off2 / f) * z are the same number, for a focal length f > 0
SameScaled(off1, off2, z) == z = 0 \/ off1 = off2

\* C11: for the sample at raster row r and column c (index r * width + c) the
\* projector computes x from the column offset (width/2 - c) scaled by 1/fx
\* and y from the row offset (height/2 - r) scaled by 1/fy, with z = d; so the
\* centre pixel (r = height/2, c = width/2) projects to x = 0, y = 0, z = d.
C11_OffsetsFromColumnAndRow ==
    projected # "none" =>
        \A r \in 0..(depth.height - 1), c \in 0..(depth.width - 1) :
            LET p == points[r * depth.width + c + 1]
            IN  /\ p.z = SampleAt(depth, r, c)
                /\ SameScaled(p.xoff, (depth.width \div 2) - c, p.z)
                /\ SameScaled(p.yoff, (depth.height \div 2) - r, p.z)

RECURSIVE Concat(_)
Concat(ss) == IF ss = <<>> THEN <<>> ELSE Head(ss) \o Concat(Tail(ss))

IsPrefix(s, t) == Len(s) <= Len(t) /\ s = Take(t, Len(s))

C13_PointChannelBounded == Len(pointChan) < MaxBatches

\* the well-formed command lines, each with the field it names and the value
\* it gives that field
WellFormed ==
    { [line |-> Typed(ClearMaxDepth, <<>>, <<>>), kind |-> "SetMaxDepth", val |-> None],
      [line |-> Typed(ClearMinDepth, <<>>, <<>>), kind |-> "SetMinDepth", val |-> None],
      [line |-> Typed(ClearConfidenceRange, <<>>, <<>>), kind |-> "SetConfidenceRange",
       val |-> NoRange] }
    \cup { [line |-> Typed(SetMaxDepth, <<>>, <<n>>), kind |-> "SetMaxDepth",
            val |-> Some(f32_value(n))] : n \in Numerals }
    \cup { [line |-> Typed(SetMinDepth, <<>>, <<n>>), kind |-> "SetMinDepth",
            val |-> Some(f32_value(n))] : n \in Numerals }
    \cup { [line |-> Typed(SetConfidenceRange, <<>>, <<lo, hi>>),
            kind |-> "SetConfidenceRange",
            val |-> Range(f32_value(lo), f32_value(hi))] : lo \in Numerals, hi \in Numerals }

\* control_thread has just read a line
LineRead == Len(input') = Len(input) + 1
LastLine == input'[Len(input')]

\* step has just received a command
CommandApplied == Len(cmdChan') < Len(cmdChan)

FilterUnchanged == UNCHANGED <<max_depth, min_depth, confidence_range>>

\* C14: a well-formed command line queues one command, naming the line's own
\* field and carrying the line's value (none for a clear, the parsed number
\* for a depth, both bounds for a range); the step that receives a command
\* assigns its value to its field, whatever the field held, in that one step
\* (a range is never seen with one bound old and one new), and leaves the
\* other two fields as they were.
C14_CommandChangesOwnField ==
    [][ /\ LineRead =>
            \A w \in WellFormed :
                LastLine = w.line =>
                    /\ Len(cmdChan') = Len(cmdChan) + 1
                    /\ Take(cmdChan', Len(cmdChan)) = cmdChan
                    /\ cmdChan'[Len(cmdChan')].kind = w.kind
                    /\ Arg(cmdChan'[Len(cmdChan')]) = w.val
                    /\ FilterUnchanged
        /\ CommandApplied =>
            LET c == Head(cmdChan)
            IN  /\ cmdChan' = Tail(cmdChan)
                /\ IF c.kind = "SetMaxDepth" THEN max_depth' = Arg(c)
                   ELSE max_depth' = max_depth
                /\ IF c.kind = "SetMinDepth" THEN min_depth' = Arg(c)
                   ELSE min_depth' = min_depth
                /\ IF c.kind = "SetConfidenceRange" THEN confidence_range' = Arg(c)
                   ELSE confidence_range' = confidence_range
      ]_vars

\* 'set confidence range 0.8 0.2' typed over the range (0.2, 0.8) and applied:
\* both bounds are the new ones; the two depth bounds still hold their values
C14_Witness ==
    /\ input = <<Typed(SetConfidenceRange, <<>>, <<"0.8", "0.2">>)>>
    /\ cmdChan = <<>>
    /\ confidence_range = Range(8, 2)
    /\ max_depth = Some(8)
    /\ min_depth = Some(2)

\* lines that are empty, that are no command, or whose number does not parse
EmptyLines == { Typed(<<>>, gap, <<>>) : gap \in {<<>>, <<" ">>} }
UnrecognisedLines ==
    { Typed(<<"hello">>, <<>>, args) : args \in SeqsUpTo(Words, MaxArgs) }
    \cup { Typed(<<>>, <<>>, args) : args \in SeqsUpTo(Words, MaxArgs) \ {<<>>} }
UnparsableLines ==
    { Typed(SetMaxDepth, <<>>, <<"x">>), Typed(SetMinDepth, <<>>, <<"x">>) }
    \cup { Typed(SetConfidenceRange, <<>>, <<"x", n>>) : n \in Words }
    \cup { Typed(SetConfidenceRange, <<>>, <<n, "x">>) : n \in Words }
RejectedLines == EmptyLines \cup UnrecognisedLines \cup UnparsableLines

\* C15: reading an empty line, an unrecognised line or a line whose number
\* does not parse queues no command, changes no field of the filter state and
\* ends neither control_thread nor the process; the filter state changes only
\* when step receives a command; and a well-formed line read after such a
\* line is queued like any other.
C15_RejectedLineChangesNothing ==
    [][ /\ LineRead /\ LastLine \in RejectedLines =>
            /\ cmdChan' = cmdChan
            /\ FilterUnchanged
            /\ ctl' = "running"
            /\ exit' = "none"
        /\ ~CommandApplied => FilterUnchanged
        /\ LineRead /\ input # <<>> /\ input[1] \in RejectedLines =>
            \A w \in WellFormed :
                LastLine = w.line =>
                    /\ Len(cmdChan') = Len(cmdChan) + 1
                    /\ cmdChan'[Len(cmdChan')].kind = w.kind
                    /\ Arg(cmdChan'[Len(cmdChan')]) = w.val
      ]_vars

\* 'set max depth x' was refused, then 'set max depth 0.2' was read and applied
C15_Witness ==
    /\ input = <<Typed(SetMaxDepth, <<>>, <<"x">>), Typed(SetMaxDepth, <<>>, <<"0.2">>)>>
    /\ out = ""
    /\ cmdChan = <<>>
    /\ max_depth = Some(2)
    /\ ctl = "running"
    /\ exit = "none"

\* 'set confidence range' followed by no argument, one argument, or three or
\* more, each after a single space
WrongCountLines ==
    { Typed(SetConfidenceRange, <<>>, args) : args \in SeqsUpTo(Words, MaxArgs) }
    \ { Typed(SetConfidenceRange, <<>>, <<lo, hi>>) : lo \in Words, hi \in Words }

\* C16: a 'set confidence range' line whose number of arguments is not two
\* prints the usage hint (and so neither 'Unrecognised input' nor a bound
\* parse error), queues no command and changes no field of the filter state.
C16_WrongCountPrintsUsage ==
    [][ LineRead /\ LastLine \in WrongCountLines =>
            /\ out' = Usage
            /\ cmdChan' = cmdChan
            /\ FilterUnchanged
      ]_vars

\* step has just received a batch and rendered it
BatchRendered == Len(taken') = Len(taken) + 1
LastBatch == taken'[Len(taken')]

\* the rule of the claim: the point is beyond a bound that is set
Dropped(p, maxd, mind) ==
    \/ maxd.some /\ p.z > maxd.val
    \/ mind.some /\ p.z < mind.val

RECURSIVE NotDropped(_, _, _)
NotDropped(ps, maxd, mind) ==
    IF ps = <<>> THEN <<>>
    ELSE IF Dropped(Head(ps), maxd, mind) THEN NotDropped(Tail(ps), maxd, mind)
    ELSE <<Head(ps)>> \o NotDropped(Tail(ps), maxd, mind)

\* C17: when step renders a batch, the points it pushes are exactly the points
\* of the batch that are not beyond a set bound (a point whose z equals a
\* bound is pushed), in the order of the batch.
C17_DroppedIffBeyondBound ==
    [][ BatchRendered =>
            LET kept == NotDropped(LastBatch, max_depth', min_depth')
            IN  /\ pushed' = kept
                /\ Len(renderer') = Len(kept)
                /\ \A i \in 1..Len(kept) :
                       renderer'[i].pos = <<kept[i].x, kept[i].y, kept[i].z>>
      ]_vars

\* a batch of two points under max_depth = min_depth = 0.5: the first, at 0.8,
\* was dropped, the second, at the bound, was rendered
C17_Witness ==
    /\ max_depth = Some(5)
    /\ min_depth = Some(5)
    /\ Len(taken) = 1
    /\ Len(taken[1]) = 2
    /\ taken[1][1].z = 8
    /\ taken[1][2].z = 5
    /\ pushed = <<taken[1][2]>>
    /\ Len(renderer) = 1

\* C18: filtering is idempotent: the loop of step, run again over the points
\* it pushed, under the same filter state, pushes the same points again.
C18_FilterIdempotent ==
    [][ BatchRendered =>
            LET again == for_point_in_points(pushed', max_depth', min_depth',
                                             confidence_range')
            IN  /\ [i \in 1..Len(again) |-> again[i].point] = pushed'
                /\ Pushed(again) = renderer'
      ]_vars

\* a batch of two points of which the filter dropped one and kept one
C18_Witness ==
    /\ Len(taken) = 1
    /\ Len(taken[1]) = 2
    /\ Len(pushed) = 1
    /\ min_depth = Some(5)
    /\ max_depth = None
    /\ taken[1][1].z = 2

\* two quotients are the same number (0 / 0 only equals itself)
SameQ(a, b) ==
    IF a.d = 0 \/ b.d = 0 THEN a = b ELSE a.n * b.d = b.n * a.d

SameColour(a, b) == \A k \in 1..3 : SameQ(a[k], b[k])

\* the rule of the claim
Interpolated(c, low, high) ==
    <<Q((high - low) - (c - low), high - low), Q(c - low, high - low), Q(0, 1)>>

Expected(c, range) ==
    IF ~range.some THEN <<Q(1, 1), Q(1, 1), Q(1, 1)>>
    ELSE LET low == range.val.low
             high == range.val.high
         IN  IF low < high
             THEN CASE c < low -> <<Q(1, 1), Q(0, 1), Q(0, 1)>>
                    [] c > high -> <<Q(0, 1), Q(1, 1), Q(0, 1)>>
                    [] OTHER -> Interpolated(c, low, high)
             ELSE CASE c > low -> <<Q(1, 1), Q(0, 1), Q(0, 1)>>
                    [] c < high -> <<Q(0, 1), Q(1, 1), Q(0, 1)>>
                    [] OTHER -> Interpolated(c, low, high)

\* the examples of the claim: range, confidence, colour
Examples ==
    { <<Range(2, 8), 0, <<Q(1, 1), Q(0, 1), Q(0, 1)>> >>,
      <<Range(2, 8), 10, <<Q(0, 1), Q(1, 1), Q(0, 1)>> >>,
      <<Range(2, 8), 5, <<Q(1, 2), Q(1, 2), Q(0, 1)>> >>,
      <<Range(8, 2), 9, <<Q(1, 1), Q(0, 1), Q(0, 1)>> >>,
      <<Range(8, 2), 1, <<Q(0, 1), Q(1, 1), Q(0, 1)>> >> }

\* C19: when step renders a batch, every point it pushes has the colour of
\* the rule: (1,1,1) without a range; with low < high red below low, green
\* above high, else (1-t, t, 0) with t = (confidence-low)/(high-low); with
\* low >= high red above low, green below high, else the same interpolation;
\* and the five examples of the claim come out as stated.
C19_ColourRule ==
    [][ BatchRendered =>
            \A i \in 1..Len(pushed') :
                /\ SameColour(renderer'[i].colour,
                              Expected(pushed'[i].confidence, confidence_range'))
                /\ \A e \in Examples :
                       (e[2] = pushed'[i].confidence /\ confidence_range'.some
                        /\ e[1].val = confidence_range'.val)
                           => SameColour(renderer'[i].colour, e[3])
      ]_vars

\* confidences 0.9 and 0.1 rendered under the inverted range (0.8, 0.2): red,
\* then green
C19_Witness ==
    /\ confidence_range = Range(8, 2)
    /\ Len(pushed) = 2
    /\ pushed[1].confidence = 9
    /\ pushed[2].confidence = 1
    /\ renderer[1].colour = Red
    /\ renderer[2].colour = Green

\* the death of tcp_thread touches neither control_thread nor the process
KillsOnlyItsThread ==
    [][tcp # "dead" /\ tcp' = "dead" => ctl' = ctl /\ exit' = "none"]_vars

C21_LatestBatchDrawn ==
    [][ BatchRendered =>
            /\ LastBatch = decoded'[Len(decoded')]
            /\ pointChan' = <<>>
      ]_vars

\* C22: after any tick, every point the renderer holds satisfies the filter
\* state of that moment: none is deeper than max_depth when it is set, none
\* nearer than min_depth when it is set, also after a tick on which a command
\* changed the filter state and no batch arrived.
C22_RendererSatisfiesFilter ==
    /\ Len(renderer) = Len(pushed)
    /\ \A i \in 1..Len(pushed) : ~Dropped(pushed[i], max_depth, min_depth)

\* step has just received a batch
BatchTaken == Len(pointChan') < Len(pointChan)

\* C23: a tick never waits on a channel (step can always run while the
\* process lives); it removes at most one command and at most one batch, each
\* from the front of its queue; the command it removed is in force when the
\* batch of the same tick is filtered and coloured; with the command queue
\* empty the filter state is unchanged, with the batch queue empty the
\* renderer is unchanged; and when a batch is taken the renderer holds the
\* points of that batch alone.
C23_TickPollsEachChannelOnce ==
    /\ [](exit = "none" => ENABLED Step)
    /\ [][ /\ Len(cmdChan') >= Len(cmdChan) - 1
           /\ Len(pointChan') >= Len(pointChan) - 1
           /\ \A i \in 1..Len(cmdChan') :
                  cmdChan'[i].kind = cmdChan[i + Len(cmdChan) - Len(cmdChan')].kind
           /\ pointChan' = Drop(pointChan, Len(pointChan) - Len(pointChan'))
           /\ CommandApplied =>
                  LET c == Head(cmdChan)
                  IN  /\ c.kind = "SetMaxDepth" => max_depth' = Arg(c)
                      /\ c.kind = "SetMinDepth" => min_depth' = Arg(c)
                      /\ c.kind = "SetConfidenceRange" => confidence_range' = Arg(c)
           /\ cmdChan = <<>> => FilterUnchanged
           /\ pointChan = <<>> => renderer' = renderer /\ pushed' = pushed
           /\ BatchTaken =>
                  LET kept == NotDropped(Head(pointChan), max_depth', min_depth')
                  IN  /\ taken' = Append(taken, Head(pointChan))
                      /\ pushed' = kept
                      /\ Len(renderer') = Len(kept)
                      /\ \A i \in 1..Len(kept) :
                             /\ renderer'[i].pos = <<kept[i].x, kept[i].y, kept[i].z>>
                             /\ SameColour(renderer'[i].colour,
                                           Expected(kept[i].confidence, confidence_range'))
         ]_vars

\* one tick on two queued commands and two queued batches: it applied
\* 'max depth 0.2', then rendered the first batch under it (the point at 0.8
\* dropped), and left one command and one batch queued
C23_Witness ==
    /\ taken = <<<<TickPoint(2), TickPoint(8)>>>>
    /\ max_depth = Some(2)
    /\ pushed = <<TickPoint(2)>>
    /\ Len(renderer) = 1
    /\ Len(cmdChan) = 1
    /\ Len(pointChan) = 1

\* C24: with no filter active, the batches step has rendered are the first
\* batches the client wrote, in the order written, each once and none merged;
\* and the renderer holds, for the batch rendered last, one point per point
\* of the batch, the i-th with the x, y, z of the batch's i-th point.
C24_OrderPreservedEndToEnd ==
    /\ IsPrefix(taken, sent)
    /\ taken # <<>> =>
           LET b == taken[Len(taken)]
           IN  /\ Len(renderer) = Len(b)
               /\ \A i \in 1..Len(b) : renderer[i].pos = <<b[i].x, b[i].y, b[i].z>>

\* two different batches written, decoded and rendered one after the other,
\* the second holding two different points
C24_Witness ==
    /\ Len(taken) = 2
    /\ taken[1] # taken[2]
    /\ Len(taken[2]) = 2
    /\ taken[2][1] # taken[2][2]
    /\ Len(renderer) = 2
    /\ max_depth = None /\ min_depth = None

\* C25: the wait request_frame passes to the driver is the requested number
\* of milliseconds, which is not negative, whenever a timeout is given, and
\* is -1 only when none is given.
C25_WaitIsRequestedMillis ==
    waited.some =>
        IF timeout.some
        THEN /\ waited.val >= 0
             /\ <<waited.val % 65536, waited.val \div 65536, 0>> = timeout.val
        ELSE waited.val = 0 - 1

\* the quotient is a number between 0 and 1
InUnit(q) == q.d # 0 /\ q.n * q.d >= 0 /\ q.n * q.n =< q.d * q.d

\* C26: under every confidence range, low = high included, the colour of a
\* rendered point is well defined: no component is a quotient by zero, the
\* red and green components lie between 0 and 1 and sum to 1.
C26_ColourWellDefined ==
    confidence_range.some =>
        \A i \in 1..Len(renderer) :
            LET r == renderer[i].colour[1]
                g == renderer[i].colour[2]
            IN  /\ InUnit(r)
                /\ InUnit(g)
                /\ r.n * g.d + g.n * r.d = r.d * g.d

\* control_thread has read the end of the input
EofRead == \E i \in 1..Len(input) : input[i] = <<>>

\* C27: once control_thread has read the end of the input it stops, which
\* drops the command sender, and a following tick ends the process with exit
\* status 2.
C27_EofEndsProcess == EofRead ~> (ctl = "dead" /\ exit = "2")

====
